---- MODULE Spec2Model ----
(***************************************************************************)
(* Model of the spreadsheet pipeline of JehangirLBG/DataPipeline:          *)
(*   src/script_manager.py  ScriptManager (path state, registry, runner,   *)
(*                          the three transfer operations)                 *)
(*   src/app.py             upload_files, handle_pipeline_start,           *)
(*                          handle_pipeline_config_update                  *)
(*   src/config.py          folders, allowed_file                          *)
(*                                                                         *)
(* The socket handlers are single actions.  upload_files and _run_pipeline *)
(* run on their own threads next to them, so they advance one statement    *)
(* group at a time and every interleaving with the handlers is explored.   *)
(* list.sort is taken as one indivisible in-place reassignment.            *)
(* The emitted event stream is kept per start_pipeline request             *)
(* (runs[r].emitted is the projection of the stream on request r).         *)
(***************************************************************************)
EXTENDS Integers, Sequences, FiniteSets, TLC

VARIABLES
    base_sheet_path,      \* ScriptManager.base_sheet_path
    new_data_sheet_path,  \* ScriptManager.new_data_sheet_path
    output_file_path,     \* ScriptManager.output_file_path
    pipeline_steps,       \* ScriptManager.pipeline_steps, the list of step dicts
    fs,                   \* the files on disk: path -> workbook
    clock,                \* the last datetime.now() read, to the second
    upload,               \* the upload_files request in progress
    runs,                 \* one record per start_pipeline request
    config,               \* the last update_pipeline_config request
    budget,               \* number of requests the clients will make
    nRequests,            \* number of client requests so far
    nRemoved              \* number of files removed from outside so far

vars == <<base_sheet_path, new_data_sheet_path, output_file_path,
          pipeline_steps, fs, clock, upload, runs, config, budget, nRequests, nRemoved>>

----------------------------------------------------------------------------
(* Bounds of the model *)

MaxRequests == 2
MaxWide == 3
MaxRemoved == 1
MaxClock == 1
MaxOrderLen == 4
MaxDestRows == 3
MaxDataRows == 2
MaxFairRequests == 1

----------------------------------------------------------------------------
(* src/config.py *)

UPLOAD_FOLDER == "uploads"
OUTPUT_FOLDER == "output"
BACKUP_FOLDER == "backups"
ALLOWED_EXTENSIONS == {"xlsx", "xls"}

\* A file name is kept as stem and extension; FileName renders it.
FileName(n) == n.stem \o "." \o n.ext

allowed_file(n) == n.ext \in ALLOWED_EXTENSIONS

\* os.path.join(folder, name) and os.path.basename(path)
Join(folder, name) == [dir |-> folder, file |-> name]
BaseName(p) == p.file

None == [dir |-> "", file |-> ""]

----------------------------------------------------------------------------
(* Workbooks: a sequence of sheets, the first one active.  A sheet is a    *)
(* title and its rows, a row a sequence of cells.                          *)

TextCell(s) == [kind |-> "text", text |-> s, d |-> 0, m |-> 0, y |-> 0]
DateCell(d, m, y) == [kind |-> "date", text |-> "", d |-> d, m |-> m, y |-> y]
EmptyCell == [kind |-> "none", text |-> "", d |-> 0, m |-> 0, y |-> 0]

Pad2(n) == IF n < 10 THEN "0" \o ToString(n) ELSE ToString(n)
Pad4(n) == IF n < 10 THEN "000" \o ToString(n)
           ELSE IF n < 100 THEN "00" \o ToString(n)
           ELSE IF n < 1000 THEN "0" \o ToString(n)
           ELSE ToString(n)

\* value.strftime('%d/%m/%Y') if isinstance(value, datetime) else value
FormatValue(c) ==
    IF c.kind = "date"
    THEN TextCell(Pad2(c.d) \o "/" \o Pad2(c.m) \o "/" \o Pad4(c.y))
    ELSE c

FormatRow(row) == [i \in 1..Len(row) |-> FormatValue(row[i])]

Sheet(title, rows) == [title |-> title, rows |-> rows]

\* The uploaded workbooks the model draws from.
BaseBookA ==
    << Sheet("Sheet", << <<TextCell("id"), TextCell("when")>>,
                         <<TextCell("a1"), TextCell("01/01/2024")>>,
                         <<TextCell("a2"), TextCell("02/01/2024")>> >>) >>

BaseBookB ==
    << Sheet("Sheet", << <<TextCell("id"), TextCell("when")>> >>) >>

NewBook ==
    << Sheet("Sheet", << <<TextCell("id"), TextCell("when")>>,
                         <<TextCell("n1"), DateCell(5, 3, 2024)>>,
                         <<TextCell("n2"), DateCell(17, 11, 2023)>> >>) >>

BaseBooks == {BaseBookA, BaseBookB}
NewBooks == {NewBook}

BaseNames == {[stem |-> "base", ext |-> "xlsx"],
              [stem |-> "other", ext |-> "xlsx"],
              [stem |-> "notes", ext |-> "txt"]}
NewNames == {[stem |-> "new", ext |-> "xlsx"],
             [stem |-> "notes", ext |-> "txt"]}

Exists(files, p) == p \in DOMAIN files

Put(files, p, book) ==
    [q \in (DOMAIN files) \cup {p} |-> IF q = p THEN book ELSE files[q]]

Remove(files, p) == [q \in (DOMAIN files) \ {p} |-> files[q]]

----------------------------------------------------------------------------
(* The three transfer operations.  Each reads the path fields when it is   *)
(* called and answers [ok, files]: ok = FALSE is a raised exception, and   *)
(* then the files are as they were.  io = FALSE stands for a workbook the  *)
(* library cannot parse or a save the disk refuses.                        *)

Failed(files) == [ok |-> FALSE, files |-> files]
Saved(files, p, book) == [ok |-> TRUE, files |-> Put(files, p, book)]

\* load_workbook(path) succeeds
Loadable(files, p, io) == io /\ p # None /\ Exists(files, p)

\* sheet.cell(row=r, column=c).value
CellAt(rows, r, c) ==
    IF r <= Len(rows) /\ c <= Len(rows[r]) THEN rows[r][c] ELSE EmptyCell

\* next_row of lines 147-149: the first row whose column 1 is empty
RECURSIVE FirstEmptyRow(_, _)
FirstEmptyRow(rows, r) ==
    IF CellAt(rows, r, 1).kind # "none" THEN FirstEmptyRow(rows, r + 1) ELSE r

Max(a, b) == IF a >= b THEN a ELSE b

\* lines 152-154: the cells of one source row written into row r
WriteRow(rows, r, vals) ==
    LET old == IF r <= Len(rows) THEN rows[r] ELSE <<>>
        new == [c \in 1..Max(Len(old), Len(vals)) |->
                   IF c <= Len(vals) /\ vals[c].kind # "none"
                   THEN vals[c]
                   ELSE IF c <= Len(old) THEN old[c] ELSE EmptyCell]
    IN  [i \in 1..Max(Len(rows), r) |->
            IF i = r THEN new ELSE IF i <= Len(rows) THEN rows[i] ELSE <<>>]

\* lines 151-155: source rows from..Len(src) written from next_row on
RECURSIVE AppendRows(_, _, _, _)
AppendRows(rows, next_row, src, from) ==
    IF from > Len(src) THEN rows
    ELSE AppendRows(WriteRow(rows, next_row, FormatRow(src[from])),
                    next_row + 1, src, from + 1)

execute_excel_macro(files, base, io) ==
    IF ~Loadable(files, base, io) THEN Failed(files)
    ELSE Saved(files, base, files[base])

\* the transfer reading the source from its first row (min_row=1)
execute_same_sheet_transfer_with_header(files, base, new, io) ==
    IF ~Loadable(files, new, io) \/ ~Loadable(files, base, io) THEN Failed(files)
    ELSE LET source_sheet == files[new][1]
             book == files[base]
             destination_sheet == book[1]
             next_row == FirstEmptyRow(destination_sheet.rows, 1)
             rows == AppendRows(destination_sheet.rows, next_row,
                                source_sheet.rows, 1)
         IN  Saved(files, base,
                   [book EXCEPT ![1] = Sheet(destination_sheet.title, rows)])

execute_same_sheet_transfer(files, base, new, io) ==
    IF ~Loadable(files, new, io) \/ ~Loadable(files, base, io) THEN Failed(files)
    ELSE LET source_sheet == files[new][1]
             book == files[base]
             destination_sheet == book[1]
             next_row == FirstEmptyRow(destination_sheet.rows, 1)
             rows == AppendRows(destination_sheet.rows, next_row,
                                source_sheet.rows, 2)
         IN  Saved(files, base,
                   [book EXCEPT ![1] = Sheet(destination_sheet.title, rows)])

Titles(book) == {book[i].title : i \in 1..Len(book)}

\* Workbook.create_sheet(title=...): a title in use gets the next free
\* number appended instead of raising.
SheetTitle(book, title) ==
    IF title \notin Titles(book) THEN title
    ELSE LET used == {k \in 1..Len(book) : (title \o ToString(k)) \in Titles(book)}
             highest == IF used = {} THEN 0
                        ELSE CHOOSE k \in used : \A j \in used : j <= k
         IN  title \o ToString(highest + 1)

execute_different_sheet_transfer(files, base, new, io) ==
    IF ~Loadable(files, new, io) \/ ~Loadable(files, base, io) THEN Failed(files)
    ELSE LET source_sheet == files[new][1]
             book == files[base]
             new_sheet_name == "Transferred Data"
             rows == [i \in 1..Len(source_sheet.rows) |->
                         FormatRow(source_sheet.rows[i])]
         IN  Saved(files, base,
                   Append(book, Sheet(SheetTitle(book, new_sheet_name), rows)))

----------------------------------------------------------------------------
(* The registry: ScriptManager.__init__, lines 18-39 *)

\* lines 18-22: step id -> bound method (a method is kept by its name)
step_functions ==
    [id \in {"different_sheet_transfer", "excel_macro", "same_sheet_transfer"} |->
        CASE id = "different_sheet_transfer" -> "_execute_different_sheet_transfer"
          [] id = "excel_macro" -> "_execute_excel_macro"
          [] id = "same_sheet_transfer" -> "_execute_same_sheet_transfer"]

StepIds == DOMAIN step_functions

\* lines 23-39: the three step dicts
InitialSteps ==
    << [id |-> "different_sheet_transfer", name |-> "Transfer to New Sheet",
        function |-> "_execute_different_sheet_transfer"],
       [id |-> "excel_macro", name |-> "Execute Excel Macro",
        function |-> "_execute_excel_macro"],
       [id |-> "same_sheet_transfer", name |-> "Append to Base Sheet",
        function |-> "_execute_same_sheet_transfer"] >>

\* the ids of a list of step dicts, in its order
Ids(steps) == [i \in 1..Len(steps) |-> steps[i].id]

\* step['function'](): the call of the bound method the dict holds
StepFunction(function, files, base, new, io) ==
    CASE function = "_execute_different_sheet_transfer" ->
             execute_different_sheet_transfer(files, base, new, io)
      [] function = "_execute_excel_macro" -> execute_excel_macro(files, base, io)
      [] function = "_execute_same_sheet_transfer" ->
             execute_same_sheet_transfer(files, base, new, io)

Range(s) == {s[i] : i \in 1..Len(s)}

\* step_order.index(id): the first position of id (ValueError when absent)
Index(step_order, id) ==
    CHOOSE i \in 1..Len(step_order) :
        step_order[i] = id /\ \A j \in 1..(i - 1) : step_order[j] # id

\* the key function raises for some element of the list
KeyRaises(steps, step_order) ==
    \E i \in 1..Len(steps) : steps[i].id \notin Range(step_order)

\* list.sort(key=...): stable, by insertion
\* Insert with the comparison turned round (the list sorted backwards)
RECURSIVE InsertDescending(_, _, _)
InsertDescending(sorted, x, step_order) ==
    IF sorted = <<>> THEN <<x>>
    ELSE IF Index(step_order, x.id) > Index(step_order, Head(sorted).id)
         THEN <<x>> \o sorted
         ELSE <<Head(sorted)>> \o InsertDescending(Tail(sorted), x, step_order)

RECURSIVE Insert(_, _, _)
Insert(sorted, x, step_order) ==
    IF sorted = <<>> THEN <<x>>
    ELSE IF Index(step_order, x.id) < Index(step_order, Head(sorted).id)
         THEN <<x>> \o sorted
         ELSE <<Head(sorted)>> \o Insert(Tail(sorted), x, step_order)

RECURSIVE SortSteps(_, _)
SortSteps(steps, step_order) ==
    IF steps = <<>> THEN <<>>
    ELSE LET rest == SortSteps(Tail(steps), step_order)
         IN  Insert(rest, Head(steps), step_order)

----------------------------------------------------------------------------
(* Requests and events *)

AllIds == StepIds \cup {"no_such_step"}

\* The step lists a client may send: no id twice, known and unknown ids.
StepOrders ==
    {s \in UNION {[1..n -> AllIds] : n \in 0..MaxOrderLen} :
        \A i, j \in 1..Len(s) : i # j => s[i] # s[j]}

\* The payload of a socket event: with or without a 'steps' entry.
Payloads ==
    {[has_steps |-> FALSE, steps |-> <<>>]}
        \cup {[has_steps |-> TRUE, steps |-> s] : s \in StepOrders}

\* the orderings that hold each known step id exactly once
ValidOrders == {s \in StepOrders : Len(s) = Cardinality(StepIds) /\ Range(s) = StepIds}

HasUnknownId(s) == \E i \in 1..Len(s) : s[i] \notin StepIds

\* what the request asked for, when that is a valid ordering
Requested(data) ==
    IF data.has_steps /\ data.steps \in ValidOrders THEN data.steps ELSE <<>>

Ev(name, step_id, output_file) ==
    [name |-> name, step_id |-> step_id, output_file |-> output_file]

\* lines 54 and 47: the derived output path and the backup path
OutputPath(base_path) ==
    Join(OUTPUT_FOLDER, "processed_" \o BaseName(base_path))

Stamp(now) == "t" \o ToString(now)

BackupPath(base_path, now) ==
    Join(BACKUP_FOLDER, "backup_" \o Stamp(now) \o "_" \o BaseName(base_path))

----------------------------------------------------------------------------
(* ScriptManager.update_pipeline_config, lines 108-121: [ok, steps] *)

\* update_pipeline_config without the validation of lines 113-114
update_pipeline_config_unvalidated(steps, step_order) ==
    IF KeyRaises(steps, step_order)
    THEN [ok |-> FALSE, steps |-> steps]
    ELSE [ok |-> TRUE, steps |-> SortSteps(steps, step_order)]

\* update_pipeline_config rebuilding the list from the ids it was sent
update_pipeline_config_rebuilt(steps, step_order) ==
    IF \E i \in 1..Len(step_order) : step_order[i] \notin StepIds
    THEN [ok |-> FALSE, steps |-> steps]
    ELSE [ok |-> TRUE,
          steps |-> [i \in 1..Len(step_order) |->
                        CHOOSE x \in Range(InitialSteps) : x.id = step_order[i]]]

update_pipeline_config(steps, step_order) ==
    IF \E i \in 1..Len(step_order) : step_order[i] \notin StepIds
    THEN [ok |-> FALSE, steps |-> steps]
    ELSE IF KeyRaises(steps, step_order)
    THEN [ok |-> FALSE, steps |-> steps]
    ELSE [ok |-> TRUE, steps |-> SortSteps(steps, step_order)]

(* ScriptManager.execute_pipeline, lines 60-72.  The answer says what the  *)
(* call emitted, the list it left, whether it raised and whether it        *)
(* started the thread.                                                     *)

MissingInput(base, new) == base = None \/ new = None

\* execute_pipeline without the return of line 67
execute_pipeline_no_return(base, new, steps, step_order) ==
    LET first == IF MissingInput(base, new)
                 THEN <<Ev("step_error", steps[1].id, "")>> ELSE <<>>
    IN  IF step_order # <<>> /\ KeyRaises(steps, step_order)
        THEN [emitted |-> first, steps |-> steps,
              raised |-> TRUE, thread |-> FALSE, sorted |-> FALSE]
        ELSE IF step_order # <<>>
        THEN [emitted |-> first, steps |-> SortSteps(steps, step_order),
              raised |-> FALSE, thread |-> TRUE, sorted |-> TRUE]
        ELSE [emitted |-> first, steps |-> steps,
              raised |-> FALSE, thread |-> TRUE, sorted |-> FALSE]

\* execute_pipeline with the sort of line 71 made before the test of line 62
execute_pipeline_sort_first(base, new, steps, step_order) ==
    LET sortable == step_order # <<>> /\ ~KeyRaises(steps, step_order)
        sorted == IF sortable THEN SortSteps(steps, step_order) ELSE steps
    IN  IF MissingInput(base, new)
        THEN [emitted |-> <<Ev("step_error", sorted[1].id, "")>>, steps |-> sorted,
              raised |-> FALSE, thread |-> FALSE, sorted |-> sortable]
        ELSE IF step_order # <<>> /\ ~sortable
        THEN [emitted |-> <<>>, steps |-> steps,
              raised |-> TRUE, thread |-> FALSE, sorted |-> FALSE]
        ELSE [emitted |-> <<>>, steps |-> sorted,
              raised |-> FALSE, thread |-> TRUE, sorted |-> sortable]

execute_pipeline(base, new, steps, step_order) ==
    IF MissingInput(base, new)
    THEN [emitted |-> <<Ev("step_error", steps[1].id, "")>>, steps |-> steps,
          raised |-> FALSE, thread |-> FALSE, sorted |-> FALSE]
    ELSE IF step_order # <<>> /\ KeyRaises(steps, step_order)
    THEN [emitted |-> <<>>, steps |-> steps,
          raised |-> TRUE, thread |-> FALSE, sorted |-> FALSE]
    ELSE IF step_order # <<>>
    THEN [emitted |-> <<>>, steps |-> SortSteps(steps, step_order),
          raised |-> FALSE, thread |-> TRUE, sorted |-> TRUE]
    ELSE [emitted |-> <<>>, steps |-> steps,
          raised |-> FALSE, thread |-> TRUE, sorted |-> FALSE]

(* ScriptManager._run_pipeline, lines 76-87: what follows the step's       *)
(* function, and lines 89-106: the copy to the output folder.              *)

\* the loop without the return of line 87
AfterStep_no_return(id, ok) ==
    IF ok
    THEN [emitted |-> <<Ev("step_complete", id, "")>>, pc |-> "loop"]
    ELSE [emitted |-> <<Ev("step_error", id, "")>>, pc |-> "loop"]

AfterStep(id, ok) ==
    IF ok
    THEN [emitted |-> <<Ev("step_complete", id, "")>>, pc |-> "loop"]
    ELSE [emitted |-> <<Ev("step_error", id, "")>>, pc |-> "failed"]

\* copy2(src, dst): [ok, files]
copy2(files, src, dst, io) ==
    IF io /\ src # None /\ dst # None /\ Exists(files, src)
    THEN [ok |-> TRUE, files |-> Put(files, dst, files[src])]
    ELSE [ok |-> FALSE, files |-> files]

\* the end of the run with the outcome of the copy ignored
FinishRun_unchecked(files, base, out, io) ==
    LET c == copy2(files, base, out, io)
    IN  [emitted |-> <<Ev("pipeline_complete", "", BaseName(out))>>,
         files |-> c.files, copied |-> c.ok]

\* the end of the run with no event emitted
FinishRun_silent(files, base, out, io) ==
    LET c == copy2(files, base, out, io)
    IN  [emitted |-> <<>>, files |-> c.files, copied |-> c.ok]

FinishRun(files, base, out, io) ==
    IF Exists(files, base)
    THEN LET c == copy2(files, base, out, io)
         IN  IF c.ok
             THEN [emitted |-> <<Ev("pipeline_complete", "", BaseName(out))>>,
                   files |-> c.files, copied |-> TRUE]
             ELSE [emitted |-> <<Ev("pipeline_error", "", "")>>,
                   files |-> files, copied |-> FALSE]
    ELSE [emitted |-> <<Ev("pipeline_error", "", "")>>,
          files |-> files, copied |-> FALSE]

(* ScriptManager.update_file_paths, lines 43-50: the backup.               *)
(* [raised, files, written]                                                *)

\* the backup with the exception swallowed instead of raised again (line 58)
BackupBaseSheet_swallowed(files, base_path, now, io) ==
    IF Exists(files, base_path)
    THEN LET c == copy2(files, base_path, BackupPath(base_path, now), io)
         IN  [raised |-> FALSE, files |-> c.files, written |-> c.ok]
    ELSE [raised |-> FALSE, files |-> files, written |-> FALSE]

BackupBaseSheet(files, base_path, now, io) ==
    IF Exists(files, base_path)
    THEN LET c == copy2(files, base_path, BackupPath(base_path, now), io)
         IN  [raised |-> ~c.ok, files |-> c.files, written |-> c.ok]
    ELSE [raised |-> FALSE, files |-> files, written |-> FALSE]

----------------------------------------------------------------------------
(* State after ScriptManager(socketio), lines 13-39, with empty folders *)

NoFiles == [q \in {} |-> <<>>]

IdleUpload ==
    [pc |-> "idle", base_path |-> None, new_data_path |-> None,
     base_book |-> <<>>, new_book |-> <<>>, response |-> "none",
     pre_paths |-> <<None, None, None>>, pre_book |-> <<>>,
     replaced |-> FALSE, backup_failed |-> FALSE,
     backup |-> None, backup_new |-> FALSE]

\* The last update_pipeline_config request: what it emitted, whether its
\* list was a valid ordering or held an unknown id, and whether the live
\* order after it was the list (applied) or the order before it (kept).
NoConfig ==
    [emitted |-> <<>>, unknown |-> FALSE, valid |-> FALSE,
     kept |-> TRUE, applied |-> FALSE]

InitWith(max) ==
    /\ budget = max
    /\ base_sheet_path = None
    /\ new_data_sheet_path = None
    /\ output_file_path = None
    /\ pipeline_steps = InitialSteps
    /\ fs = NoFiles
    /\ clock = 0
    /\ upload = IdleUpload
    /\ runs = <<>>
    /\ config = NoConfig
    /\ nRequests = 0
    /\ nRemoved = 0

Init == InitWith(MaxRequests)

paths == <<base_sheet_path, new_data_sheet_path, output_file_path>>

Active(r) == r.pc = "loop"

\* a sort of the live list happened while these runs were under way
MarkReordered(rs, sorted) ==
    [i \in 1..Len(rs) |->
        IF sorted /\ Active(rs[i]) THEN [rs[i] EXCEPT !.reordered = TRUE]
        ELSE rs[i]]

----------------------------------------------------------------------------
(* app.py, handle_pipeline_start (lines 70-77) with execute_pipeline *)

StartPipeline(data) ==
    /\ nRequests < budget
    /\ nRequests' = nRequests + 1
    /\ LET step_order == IF data.has_steps THEN data.steps ELSE <<>>
           res == execute_pipeline(base_sheet_path, new_data_sheet_path,
                                   pipeline_steps, step_order)
           run == [pc |-> IF res.thread THEN "loop"
                          ELSE IF res.raised THEN "raised" ELSE "rejected",
                   idx |-> 0, emitted |-> res.emitted,
                   order |-> Ids(pipeline_steps'),
                   first |-> pipeline_steps[1].id,
                   valid |-> Requested(data) # <<>>,
                   applied |-> Ids(pipeline_steps') = Requested(data),
                   missing |-> MissingInput(base_sheet_path, new_data_sheet_path),
                   reordered |-> FALSE, copied |-> FALSE, can_copy |-> FALSE,
                   ran_on |-> {}, src |-> None, out |-> None]
       IN  /\ pipeline_steps' = res.steps
           /\ runs' = Append(MarkReordered(runs, res.sorted), run)
    /\ UNCHANGED <<base_sheet_path, new_data_sheet_path, output_file_path,
                   fs, clock, upload, config, nRemoved, budget>>

(* app.py, handle_pipeline_config_update (lines 79-85) *)

UpdatePipelineConfig(data) ==
    /\ nRequests < budget
    /\ nRequests' = nRequests + 1
    /\ IF data.has_steps
       THEN LET res == update_pipeline_config(pipeline_steps, data.steps)
            IN  /\ pipeline_steps' = res.steps
                /\ runs' = MarkReordered(runs, res.ok)
                /\ config' = [emitted |-> <<[name |-> "pipeline_config_updated",
                                             success |-> res.ok]>>,
                              unknown |-> HasUnknownId(data.steps),
                              valid |-> Requested(data) # <<>>,
                              kept |-> pipeline_steps' = pipeline_steps,
                              applied |-> Ids(pipeline_steps') = data.steps]
       ELSE /\ config' = NoConfig
            /\ UNCHANGED <<pipeline_steps, runs>>
    /\ UNCHANGED <<base_sheet_path, new_data_sheet_path, output_file_path,
                   fs, clock, upload, nRemoved, budget>>

----------------------------------------------------------------------------
(* ScriptManager._run_pipeline on its thread *)

\* line 76: the list iterator hands out the element at its index
NextStep(steps, idx) == steps[idx + 1]

\* lines 76-87, one turn of the loop: the next step is taken from the live
\* list, step_start is emitted, the step's function runs, and step_complete
\* or step_error follows.  The turn is one action: taking the step reads
\* only the list and the function reads only the paths and the files, so a
\* request falling between the two has the effect it has before or after.
RunStep(r, io) ==
    /\ r \in 1..Len(runs)
    /\ runs[r].pc = "loop"
    /\ runs[r].idx < Len(pipeline_steps)
    /\ LET step == NextStep(pipeline_steps, runs[r].idx)
           res == StepFunction(step.function, fs, base_sheet_path,
                               new_data_sheet_path, io)
           after == AfterStep(step.id, res.ok)
       IN  /\ fs' = res.files
           /\ runs' = [runs EXCEPT ![r].idx = @ + 1,
                                   ![r].pc = after.pc,
                                   ![r].ran_on = @ \cup {base_sheet_path},
                                   ![r].emitted = Append(@, Ev("step_start", step.id, ""))
                                                      \o after.emitted]
    /\ UNCHANGED <<base_sheet_path, new_data_sheet_path, output_file_path,
                   pipeline_steps, clock, upload, config, nRequests, nRemoved, budget>>

\* lines 89-106: the list is exhausted, the result is copied to the output
RunFinish(r, io) ==
    /\ r \in 1..Len(runs)
    /\ runs[r].pc = "loop"
    /\ runs[r].idx >= Len(pipeline_steps)
    /\ LET res == FinishRun(fs, base_sheet_path, output_file_path, io)
       IN  /\ fs' = res.files
           /\ runs' = [runs EXCEPT ![r].pc = "finished",
                                   ![r].emitted = @ \o res.emitted,
                                   ![r].copied = res.copied,
                                   ![r].can_copy = io /\ Exists(fs, base_sheet_path)
                                                      /\ output_file_path # None,
                                   ![r].src = base_sheet_path,
                                   ![r].out = output_file_path]
    /\ UNCHANGED <<base_sheet_path, new_data_sheet_path, output_file_path,
                   pipeline_steps, clock, upload, config, nRequests, nRemoved, budget>>

----------------------------------------------------------------------------
(* app.py, upload_files (lines 32-68) with update_file_paths *)

\* lines 36-46: the request is refused with 400
UploadRefused(present, base_name, new_name) ==
    /\ nRequests < budget
    /\ upload.pc = "idle"
    /\ ~present \/ ~allowed_file(base_name) \/ ~allowed_file(new_name)
    /\ nRequests' = nRequests + 1
    /\ upload' = [IdleUpload EXCEPT !.response = "400"]
    /\ UNCHANGED <<base_sheet_path, new_data_sheet_path, output_file_path,
                   pipeline_steps, fs, clock, runs, config, nRemoved, budget>>

\* lines 36-51: the request is accepted and the base sheet saved
UploadSaveBase(base_name, new_name, base_book, new_book, io) ==
    /\ nRequests < budget
    /\ upload.pc = "idle"
    /\ allowed_file(base_name) /\ allowed_file(new_name)
    /\ nRequests' = nRequests + 1
    /\ LET base_path == Join(UPLOAD_FOLDER, FileName(base_name))
           new_data_path == Join(UPLOAD_FOLDER, FileName(new_name))
       IN  IF io
           THEN /\ fs' = Put(fs, base_path, base_book)
                /\ upload' = [IdleUpload EXCEPT
                                 !.pc = "save_new",
                                 !.base_path = base_path,
                                 !.new_data_path = new_data_path,
                                 !.base_book = base_book,
                                 !.new_book = new_book,
                                 !.pre_book = IF Exists(fs, base_path)
                                              THEN fs[base_path] ELSE <<>>,
                                 !.replaced = Exists(fs, base_path)]
           ELSE /\ upload' = [IdleUpload EXCEPT !.response = "500"]
                /\ UNCHANGED fs
    /\ UNCHANGED <<base_sheet_path, new_data_sheet_path, output_file_path,
                   pipeline_steps, clock, runs, config, nRemoved, budget>>

\* lines 53-56: the new data sheet saved
UploadSaveNew(io) ==
    /\ upload.pc = "save_new"
    /\ IF io
       THEN /\ fs' = Put(fs, upload.new_data_path, upload.new_book)
            /\ upload' = [upload EXCEPT !.pc = "backup", !.new_book = <<>>]
       ELSE /\ upload' = [IdleUpload EXCEPT !.response = "500"]
            /\ UNCHANGED fs
    /\ UNCHANGED <<base_sheet_path, new_data_sheet_path, output_file_path,
                   pipeline_steps, clock, runs, config, nRequests, nRemoved, budget>>

\* line 46: datetime.now() is read only to name a backup, and two stamps are
\* only ever compared for equality, so the seconds are counted from the
\* first backup written and the clock stands still between backups
NoBackupYet(files) == \A p \in DOMAIN files : p.dir # BACKUP_FOLDER

\* script_manager.py lines 43-50 and 56-58, app.py lines 66-68
UploadBackup(now, io) ==
    /\ upload.pc = "backup"
    /\ now >= clock
    /\ NoBackupYet(fs) => now = clock
    /\ clock' = IF BackupBaseSheet(fs, upload.base_path, now, io).written
                THEN now ELSE clock
    /\ LET res == BackupBaseSheet(fs, upload.base_path, now, io)
           copy_failed == Exists(fs, upload.base_path) /\ ~io
           target == BackupPath(upload.base_path, now)
       IN  /\ fs' = res.files
           /\ upload' =
                IF res.raised
                THEN [upload EXCEPT !.pc = "idle", !.response = "500",
                                    !.pre_paths = paths,
                                    !.backup_failed = copy_failed]
                ELSE [upload EXCEPT !.pc = "set_base",
                                    !.pre_paths = paths,
                                    !.backup_failed = copy_failed,
                                    !.backup = IF res.written THEN target ELSE None,
                                    !.backup_new = res.written /\ ~Exists(fs, target)]
    /\ UNCHANGED <<base_sheet_path, new_data_sheet_path, output_file_path,
                   pipeline_steps, runs, config, nRequests, nRemoved, budget>>

\* script_manager.py line 52
UploadSetBase ==
    /\ upload.pc = "set_base"
    /\ base_sheet_path' = upload.base_path
    /\ upload' = [upload EXCEPT !.pc = "set_new"]
    /\ UNCHANGED <<new_data_sheet_path, output_file_path, pipeline_steps, fs,
                   clock, runs, config, nRequests, nRemoved, budget>>

\* script_manager.py line 53
UploadSetNew ==
    /\ upload.pc = "set_new"
    /\ new_data_sheet_path' = upload.new_data_path
    /\ upload' = [upload EXCEPT !.pc = "set_output"]
    /\ UNCHANGED <<base_sheet_path, output_file_path, pipeline_steps, fs,
                   clock, runs, config, nRequests, nRemoved, budget>>

\* script_manager.py line 54, app.py lines 61-65
UploadSetOutput ==
    /\ upload.pc = "set_output"
    /\ output_file_path' = OutputPath(upload.base_path)
    /\ upload' = [upload EXCEPT !.pc = "idle", !.response = "200"]
    /\ UNCHANGED <<base_sheet_path, new_data_sheet_path, pipeline_steps, fs,
                   clock, runs, config, nRequests, nRemoved, budget>>

----------------------------------------------------------------------------
(* The environment: the uploaded base sheet is removed from the uploads    *)
(* folder by somebody else (what line 90 looks for).                       *)

FileRemoved ==
    /\ nRemoved < MaxRemoved
    /\ Exists(fs, base_sheet_path)
    /\ nRemoved' = nRemoved + 1
    /\ fs' = Remove(fs, base_sheet_path)
    /\ UNCHANGED <<base_sheet_path, new_data_sheet_path, output_file_path,
                   pipeline_steps, clock, upload, runs, config, nRequests, budget>>

----------------------------------------------------------------------------

Next ==
    \/ \E data \in Payloads : StartPipeline(data)
    \/ \E data \in Payloads : UpdatePipelineConfig(data)
    \/ \E present \in BOOLEAN, b \in BaseNames, n \in NewNames :
           UploadRefused(present, b, n)
    \/ \E b \in BaseNames, n \in NewNames, bb \in BaseBooks, nb \in NewBooks,
          io \in BOOLEAN : UploadSaveBase(b, n, bb, nb, io)
    \/ \E io \in BOOLEAN : UploadSaveNew(io)
    \/ \E now \in 0..MaxClock, io \in BOOLEAN : UploadBackup(now, io)
    \/ UploadSetBase
    \/ UploadSetNew
    \/ UploadSetOutput
    \/ \E r \in 1..MaxWide, io \in BOOLEAN : RunStep(r, io)
    \/ \E r \in 1..MaxWide, io \in BOOLEAN : RunFinish(r, io)
    \/ FileRemoved

\* the clients make up to MaxRequests requests
Spec == Init /\ [][Next]_vars

\* Thread(target=self._run_pipeline).start(), line 72: a started thread is
\* scheduled again and again until it returns, and every call it makes
\* returns or raises
RunnerFairness ==
    \A r \in 1..MaxWide :
        /\ WF_vars(\E io \in BOOLEAN : RunStep(r, io))
        /\ WF_vars(\E io \in BOOLEAN : RunFinish(r, io))

\* the state after base.xlsx and new.xlsx were uploaded, with clients that
\* make up to MaxFairRequests requests from then on
InitUploaded ==
    /\ budget = MaxFairRequests
    /\ base_sheet_path = Join(UPLOAD_FOLDER, "base.xlsx")
    /\ new_data_sheet_path = Join(UPLOAD_FOLDER, "new.xlsx")
    /\ output_file_path = OutputPath(base_sheet_path)
    /\ pipeline_steps = InitialSteps
    /\ fs = Put(Put(NoFiles, base_sheet_path, BaseBookA),
                new_data_sheet_path, NewBook)
    /\ clock = 0
    /\ upload = [IdleUpload EXCEPT !.response = "200"]
    /\ runs = <<>>
    /\ config = NoConfig
    /\ nRequests = 0
    /\ nRemoved = 0

FairSpec == InitUploaded /\ [][Next]_vars /\ RunnerFairness

\* the same system with clients that make one request more
InitWide == InitWith(MaxWide)

SpecWide == InitWide /\ [][Next]_vars

----------------------------------------------------------------------------
(* The transfer operations over drawn workbooks: the state after an upload *)
(* of a destination and a source whose rows are drawn from bounded sets,   *)
(* and clients that make one request.                                      *)

\* rows of a destination sheet: column 1 filled, or column 1 empty
DestRowKinds ==
    {<<TextCell("d"), TextCell("e")>>, <<EmptyCell, TextCell("e")>>}

\* data rows of a source sheet: a date in column 2, or column 1 empty
DataRowKinds ==
    {<<TextCell("s"), DateCell(9, 12, 2024)>>, <<EmptyCell, TextCell("s")>>}

HeaderRow == <<TextCell("id"), TextCell("when")>>

DestSheets == UNION {[1..n -> DestRowKinds] : n \in 0..MaxDestRows}

SourceSheets ==
    {<<HeaderRow>> \o data :
        data \in UNION {[1..m -> DataRowKinds] : m \in 0..MaxDataRows}}

InitTransfer ==
    /\ budget = 1
    /\ base_sheet_path = Join(UPLOAD_FOLDER, "base.xlsx")
    /\ new_data_sheet_path = Join(UPLOAD_FOLDER, "new.xlsx")
    /\ output_file_path = OutputPath(base_sheet_path)
    /\ pipeline_steps = InitialSteps
    /\ \E dest \in DestSheets, src \in SourceSheets :
           fs = Put(Put(NoFiles, base_sheet_path, <<Sheet("Sheet", dest)>>),
                    new_data_sheet_path, <<Sheet("Sheet", src)>>)
    /\ clock = 0
    /\ upload = [IdleUpload EXCEPT !.response = "200"]
    /\ runs = <<>>
    /\ config = NoConfig
    /\ nRequests = 0
    /\ nRemoved = 0

SpecTransfer == InitTransfer /\ [][Next]_vars

----------------------------------------------------------------------------
(* Properties *)

IsStart(e) == e.name = "step_start"
IsError(e) == e.name \in {"step_error", "pipeline_error"}

\* the ids of the step_start events of a request, in the order emitted
StepStarts(emitted) ==
    LET starts == SelectSeq(emitted, IsStart)
    IN  [i \in 1..Len(starts) |-> starts[i].step_id]

Names(emitted) == {emitted[i].name : i \in 1..Len(emitted)}

ConfigSuccess == <<[name |-> "pipeline_config_updated", success |-> TRUE]>>

Started(run) == run.pc \in {"loop", "failed", "finished"}

ReorderSucceeds ==
    /\ config.valid =>
           /\ config.emitted = ConfigSuccess
           /\ config.applied
    /\ \A r \in DOMAIN runs :
           (runs[r].valid /\ ~runs[r].missing) =>
               /\ Started(runs[r])
               /\ runs[r].applied

RunFollowsOrder ==
    \A r \in DOMAIN runs :
        (Started(runs[r]) /\ ~runs[r].reordered) =>
            /\ StepStarts(runs[r].emitted) = SubSeq(runs[r].order, 1, runs[r].idx)
            /\ runs[r].pc = "finished" => StepStarts(runs[r].emitted) = runs[r].order

ConfigRefusal == <<[name |-> "pipeline_config_updated", success |-> FALSE]>>

\* C2: update_pipeline_config with a list holding an id outside the known
\* set answers pipeline_config_updated{success: false} and leaves the live
\* order as it was, whatever that order is.
C2_UnknownIdLeavesOrder ==
    config.unknown =>
        /\ config.emitted = ConfigRefusal
        /\ config.kept

C2_Witness ==
    /\ config.unknown
    /\ config.emitted = ConfigRefusal
    /\ config.kept
    /\ Ids(pipeline_steps) = <<"excel_macro", "same_sheet_transfer",
                               "different_sheet_transfer">>
    /\ nRequests = 2

\* C3: a start_pipeline request made while the source or the destination
\* path is absent emits exactly one event, step_error for the first step of
\* the live order, starts no thread and never emits anything else.
C3_MissingInputRejected ==
    \A r \in DOMAIN runs :
        runs[r].missing =>
            /\ runs[r].pc = "rejected"
            /\ runs[r].emitted = <<Ev("step_error", runs[r].first, "")>>
            /\ runs[r].idx = 0
            /\ ~runs[r].copied

C3_Witness ==
    \E r \in DOMAIN runs :
        /\ runs[r].missing
        /\ runs[r].pc = "rejected"
        /\ runs[r].first = "same_sheet_transfer"
        /\ runs[r].emitted = <<Ev("step_error", "same_sheet_transfer", "")>>

\* C4: when the function of the step at position k fails, step_error for
\* that step is the last event of the run: no later step is started, no
\* pipeline_complete or pipeline_error follows, nothing is copied to the
\* output path by that run.
C4_FirstFailureEndsRun ==
    \A r \in DOMAIN runs :
        \A i \in 1..Len(runs[r].emitted) :
            (runs[r].emitted[i].name = "step_error" /\ ~runs[r].missing) =>
                /\ i = Len(runs[r].emitted)
                /\ i = 2 * runs[r].idx
                /\ runs[r].emitted[i - 1] =
                       Ev("step_start", runs[r].emitted[i].step_id, "")
                /\ runs[r].pc = "failed"
                /\ ~runs[r].copied
                /\ Names(runs[r].emitted) \cap {"pipeline_complete", "pipeline_error"} = {}

C4_Witness ==
    \E r \in DOMAIN runs :
        /\ runs[r].pc = "failed"
        /\ runs[r].idx = 2
        /\ runs[r].idx < Len(pipeline_steps)
        /\ Len(runs[r].emitted) = 4
        /\ runs[r].emitted[4].name = "step_error"

\* C5 (as claimed): every run executes the steps of the order it started
\* with, each once and in that order, whatever reorder arrives meanwhile.
C5_RunKeepsStartOrder ==
    \A r \in DOMAIN runs :
        Started(runs[r]) =>
            /\ StepStarts(runs[r].emitted) = SubSeq(runs[r].order, 1, runs[r].idx)
            /\ runs[r].pc = "finished" => StepStarts(runs[r].emitted) = runs[r].order

Ended(run) == run.pc \in {"rejected", "raised", "failed", "finished"}

ErrorEvents(emitted) == Len(SelectSeq(emitted, IsError))

\* C6 (as claimed): every start_pipeline request that has ended without
\* pipeline_complete has emitted exactly one error event.
C6_EveryFailureOneErrorEvent ==
    \A r \in DOMAIN runs :
        (Ended(runs[r]) /\ "pipeline_complete" \notin Names(runs[r].emitted)) =>
            ErrorEvents(runs[r].emitted) = 1

FinalEvents(emitted) ==
    Len(SelectSeq(emitted, LAMBDA e : e.name \in {"pipeline_complete", "pipeline_error"}))

\* C7: a run whose loop has ended with every step completed ends with one
\* final event: pipeline_complete with the base name of the output path when
\* the destination file exists and the copy succeeds, pipeline_error
\* otherwise; pipeline_complete is never emitted without the copy.
C7_FinishEvents ==
    \A r \in DOMAIN runs :
        /\ runs[r].pc = "finished" =>
               /\ FinalEvents(runs[r].emitted) = 1
               /\ runs[r].emitted[Len(runs[r].emitted)] =
                      IF runs[r].can_copy
                      THEN Ev("pipeline_complete", "", BaseName(runs[r].out))
                      ELSE Ev("pipeline_error", "", "")
               /\ runs[r].copied = runs[r].can_copy
        /\ "pipeline_complete" \in Names(runs[r].emitted) =>
               /\ runs[r].pc = "finished"
               /\ runs[r].copied
               /\ runs[r].can_copy

C7_Witness ==
    \E r \in DOMAIN runs :
        /\ runs[r].pc = "finished"
        /\ runs[r].copied
        /\ runs[r].emitted[Len(runs[r].emitted)] =
               Ev("pipeline_complete", "", "processed_base.xlsx")
        /\ Exists(fs, Join(OUTPUT_FOLDER, "processed_base.xlsx"))

BackupDone == upload.pc \in {"set_base", "set_new", "set_output"}
                  \/ (upload.pc = "idle" /\ upload.response = "200")

\* C8 (as claimed): an upload of a base file to a path that already held a
\* file produces exactly one new backup file, and it holds what the path
\* held before the upload.
C8_BackupHoldsOldContent ==
    (upload.replaced /\ BackupDone) =>
        /\ upload.backup # None
        /\ upload.backup_new
        /\ Exists(fs, upload.backup)
        /\ fs[upload.backup] = upload.pre_book

\* C9: when the backup copy in update_file_paths fails, the upload is
\* answered with an error and the three path fields are as before the call.
C9_BackupFailureKeepsPaths ==
    upload.backup_failed =>
        /\ upload.pc = "idle"
        /\ upload.response = "500"
        /\ paths = upload.pre_paths

C9_Witness ==
    /\ upload.backup_failed
    /\ upload.response = "500"
    /\ base_sheet_path = Join(UPLOAD_FOLDER, "base.xlsx")
    /\ upload.base_path = Join(UPLOAD_FOLDER, "other.xlsx")
    /\ paths = upload.pre_paths

DerivedOutput(base) == IF base = None THEN None ELSE OutputPath(base)

\* C10 (as claimed): in every state the output path is the one derived from
\* the destination path.
C10_OutputDerivedFromDestination ==
    output_file_path = DerivedOutput(base_sheet_path)

\* C11: whatever update_pipeline_config and execute_pipeline calls were made,
\* with whatever id lists and whether they succeeded or failed, the live list
\* holds the three step dicts of the constructor, each once: no id is lost or
\* doubled and each id still has its name and its function.
C11_LiveListIsPermutation ==
    /\ Len(pipeline_steps) = Len(InitialSteps)
    /\ Range(pipeline_steps) = Range(InitialSteps)
    /\ \A i \in 1..Len(pipeline_steps) :
           pipeline_steps[i].function = step_functions[pipeline_steps[i].id]

\* a start_pipeline whose list held an id too many has re-sorted the list
C11_Witness ==
    /\ pipeline_steps # InitialSteps
    /\ \E r \in DOMAIN runs :
           /\ Started(runs[r])
           /\ ~runs[r].valid
           /\ runs[r].order = Ids(pipeline_steps)

\* the events of a run over the given ids, every step completing
StepEvents(ids) ==
    [i \in 1..(2 * Len(ids)) |->
        IF i % 2 = 1 THEN Ev("step_start", ids[(i + 1) \div 2], "")
        ELSE Ev("step_complete", ids[i \div 2], "")]

\* one upload answered 200 and one start_pipeline, nothing else
OneUploadOneRun ==
    /\ nRequests = 2 /\ nRemoved = 0
    /\ upload.pc = "idle" /\ upload.response = "200"
    /\ Len(runs) = 1 /\ runs[1].pc = "finished" /\ runs[1].can_copy

\* C12: base.xlsx with 3 rows on its default sheet and new.xlsx with a
\* header and 2 data rows are uploaded and one run is made in the default
\* order, nothing failing: the run emits step_start and step_complete for
\* different_sheet_transfer, excel_macro and same_sheet_transfer in that
\* order and then pipeline_complete, and the base file then has a sheet
\* "Transferred Data" of 3 rows and 5 rows on its default sheet.
C12_EndToEnd ==
    (/\ OneUploadOneRun
     /\ upload.base_book = BaseBookA
     /\ runs[1].order = Ids(InitialSteps)) =>
        /\ runs[1].emitted =
               StepEvents(Ids(InitialSteps))
                   \o <<Ev("pipeline_complete", "", BaseName(output_file_path))>>
        /\ Len(fs[base_sheet_path]) = 2
        /\ fs[base_sheet_path][2].title = "Transferred Data"
        /\ Len(fs[base_sheet_path][2].rows) = 3
        /\ fs[base_sheet_path][1].title = BaseBookA[1].title
        /\ Len(fs[base_sheet_path][1].rows) = 5
        /\ fs[output_file_path] = fs[base_sheet_path]

C12_Witness ==
    /\ OneUploadOneRun
    /\ upload.base_book = BaseBookA
    /\ runs[1].order = Ids(InitialSteps)
    /\ Len(runs[1].emitted) = 7
    /\ Len(fs[base_sheet_path][1].rows) = 5

\* run r has made a loop turn in this step and the turn completed the step id
StepCompleted(r, id) ==
    /\ r \in DOMAIN runs
    /\ runs'[r].idx = runs[r].idx + 1
    /\ runs'[r].emitted[Len(runs'[r].emitted)] = Ev("step_complete", id, "")

\* the rows of a sheet whose column 1 holds a value
Populated(rows) == {i \in 1..Len(rows) : CellAt(rows, i, 1).kind # "none"}

\* the transfer took a destination of N populated rows and a source of a
\* header and M data rows to a sheet of N+M populated rows, the first N
\* as they were and the next M the formatted data rows in their order
Appended(dest, src, after) ==
    LET N == Cardinality(Populated(dest))
        M == Len(src) - 1
    IN  /\ Cardinality(Populated(after)) = N + M
        /\ \A i \in 1..N : i <= Len(dest) /\ after[i] = dest[i]
        /\ \A j \in 1..M : after[N + j] = FormatRow(src[j + 1])

\* C13 (as claimed): for every destination sheet with N rows populated in
\* column 1 and every source sheet of a header and M data rows, a completed
\* _execute_same_sheet_transfer leaves exactly N+M rows populated in column
\* 1, rows 1..N unchanged and rows N+1..N+M equal to the data rows in order,
\* dates as dd/mm/yyyy text.
C13_AppendAddsRows ==
    [][\A r \in 1..MaxWide :
          StepCompleted(r, "same_sheet_transfer") =>
              Appended(fs[base_sheet_path][1].rows,
                       fs[new_data_sheet_path][1].rows,
                       fs'[base_sheet_path][1].rows)]_vars

\* run r has made a loop turn in this step and the turn was for the step id
StepTurn(r, id) ==
    /\ r \in DOMAIN runs
    /\ runs'[r].idx = runs[r].idx + 1
    /\ runs'[r].emitted[Len(runs'[r].emitted)].step_id = id

\* C14 (as claimed): _execute_different_sheet_transfer called on a
\* destination that already has a sheet "Transferred Data" fails: the run
\* emits step_error for different_sheet_transfer and ends, and the files
\* are as they were.
C14_SecondTransferFails ==
    [][\A r \in 1..MaxWide :
          (/\ StepTurn(r, "different_sheet_transfer")
           /\ Exists(fs, base_sheet_path)
           /\ "Transferred Data" \in Titles(fs[base_sheet_path])) =>
              /\ runs'[r].emitted[Len(runs'[r].emitted)] =
                     Ev("step_error", "different_sheet_transfer", "")
              /\ runs'[r].pc = "failed"
              /\ fs' = fs]_vars

\* C15 (as claimed): a start_pipeline whose steps list holds an id that is
\* no known step id leaves the live step order as it was.
C15_StartWithUnknownIdKeepsOrder ==
    [][\A data \in Payloads :
          (data.has_steps /\ HasUnknownId(data.steps) /\ StartPipeline(data)) =>
              pipeline_steps' = pipeline_steps]_vars

IsTerminal(e) == e.name \in {"step_error", "pipeline_complete", "pipeline_error"}

TerminalEvents(emitted) == Len(SelectSeq(emitted, IsTerminal))

Terminated(run) == run.pc \in {"failed", "finished"}

\* a run under way has emitted no terminal event; a run that has ended has
\* emitted one, and it is the last event of the run
OneTerminalEventLast ==
    \A r \in DOMAIN runs :
        /\ runs[r].pc = "loop" => TerminalEvents(runs[r].emitted) = 0
        /\ Terminated(runs[r]) =>
               /\ TerminalEvents(runs[r].emitted) = 1
               /\ IsTerminal(runs[r].emitted[Len(runs[r].emitted)])

\* C16: every run whose thread was started comes to its end, the thread
\* being scheduled fairly and every step returning or raising, and it ends
\* with exactly one terminal event (step_error, pipeline_complete or
\* pipeline_error), after which the run emits nothing.
C16_RunsTerminate ==
    /\ []OneTerminalEventLast
    /\ \A r \in 1..MaxWide :
           (r \in DOMAIN runs /\ runs[r].pc = "loop")
               ~> (r \in DOMAIN runs /\ Terminated(runs[r]))

\* a run went through its three steps and ended with pipeline_error
C16_Witness ==
    \E r \in DOMAIN runs :
        /\ Terminated(runs[r])
        /\ Len(runs[r].emitted) = 7
        /\ TerminalEvents(runs[r].emitted) = 1
        /\ runs[r].emitted[7] = Ev("pipeline_error", "", "")

\* C17 (as claimed): a run that emitted pipeline_complete copied the file
\* every one of its steps was executed on, to the output path derived from
\* that file, whatever upload changed the path fields meanwhile.
C17_OutputIsTheFileProcessed ==
    \A r \in DOMAIN runs :
        "pipeline_complete" \in Names(runs[r].emitted) =>
            /\ runs[r].ran_on = {runs[r].src}
            /\ runs[r].out = OutputPath(runs[r].src)

\* this step added a start_pipeline request that was rejected
StartRejected ==
    /\ Len(runs') = Len(runs) + 1
    /\ runs'[Len(runs')].pc = "rejected"

\* C18: a start_pipeline rejected for missing input emits its one
\* step_error and changes nothing else: the live step order is as before,
\* also when the request carried a steps list, the three path fields are as
\* before, and so are the files and the other requests.
C18_RejectedStartChangesNothing ==
    [][StartRejected =>
          /\ pipeline_steps' = pipeline_steps
          /\ paths' = paths
          /\ fs' = fs
          /\ upload' = upload /\ config' = config
          /\ SubSeq(runs', 1, Len(runs)) = runs
          /\ runs'[Len(runs')].emitted =
                 <<Ev("step_error", pipeline_steps[1].id, "")>>]_vars

\* a rejected request carried a valid ordering other than the live one
C18_Witness ==
    \E r \in DOMAIN runs :
        /\ runs[r].pc = "rejected"
        /\ runs[r].valid /\ ~runs[r].applied
        /\ runs[r].order = Ids(InitialSteps)
        /\ runs[r].emitted = <<Ev("step_error", "different_sheet_transfer", "")>>

====
